---- MODULE Spec2Model ----
(***************************************************************************)
(* Model of clux.py: the CK* console prompt validators.                    *)
(*                                                                         *)
(* A behaviour follows ONE module-level validator instance (clux.py        *)
(* 424-434) through any number of calls: the instances are separate        *)
(* objects and nothing in the module writes a class attribute, so what an  *)
(* instance does depends on its own attributes and on the call only.       *)
(*                                                                         *)
(* A text (a Python str) is a sequence of one-character strings.  A        *)
(* printed line is a sequence of strings too, whose elements may be whole  *)
(* literal chunks of a template.                                           *)
(***************************************************************************)
EXTENDS Integers, Sequences, FiniteSets, TLC

\* The number of lines the console can deliver to one call before it is
\* exhausted (end-of-input can come at any time).
MaxReads == 3

(***************************************************************************)
(* Texts                                                                   *)
(***************************************************************************)
UpperLetters ==
  <<"A","B","C","D","E","F","G","H","I","J","K","L","M",
    "N","O","P","Q","R","S","T","U","V","W","X","Y","Z">>

LowerLetters ==
  <<"a","b","c","d","e","f","g","h","i","j","k","l","m",
    "n","o","p","q","r","s","t","u","v","w","x","y","z">>

Digits == <<"0","1","2","3","4","5","6","7","8","9">>

IsUpper(c) == \E i \in 1..26 : UpperLetters[i] = c

IsLowerLetter(c) == \E i \in 1..26 : LowerLetters[i] = c

IsDigit(c) == \E i \in 1..10 : Digits[i] = c

DigitVal(c) == (CHOOSE i \in 1..10 : Digits[i] = c) - 1

\* str.lower(), one character
LowerChar(c) ==
  IF IsUpper(c) THEN LowerLetters[CHOOSE i \in 1..26 : UpperLetters[i] = c]
  ELSE c

\* str.lower()
Lower(t) == [i \in 1..Len(t) |-> LowerChar(t[i])]

\* str.startswith(prefix): compares code points, no case folding
StartsWith(item, prefix) ==
  /\ Len(prefix) <= Len(item)
  /\ \A i \in 1..Len(prefix) : item[i] = prefix[i]

\* str.strip() as int() applies it: leading and trailing blanks
RECURSIVE LStrip(_)
LStrip(t) == IF t # <<>> /\ Head(t) = " " THEN LStrip(Tail(t)) ELSE t

RECURSIVE RStrip(_)
RStrip(t) ==
  IF t # <<>> /\ t[Len(t)] = " " THEN RStrip(SubSeq(t, 1, Len(t) - 1)) ELSE t

RECURSIVE DigitsValue(_)
DigitsValue(t) ==
  IF t = <<>> THEN 0
  ELSE 10 * DigitsValue(SubSeq(t, 1, Len(t) - 1)) + DigitVal(t[Len(t)])

AllDigits(t) == t # <<>> /\ \A i \in 1..Len(t) : IsDigit(t[i])

\* int(text): [ok |-> FALSE] stands for ValueError.  Blanks around the
\* number and one leading sign are accepted, as int() accepts them.
ParseInt(text) ==
  LET s == RStrip(LStrip(text))
      signed == s # <<>> /\ Head(s) \in {"+", "-"}
      body == IF signed THEN Tail(s) ELSE s
  IN  IF AllDigits(body)
      THEN [ok |-> TRUE,
            val |-> IF signed /\ Head(s) = "-" THEN 0 - DigitsValue(body)
                    ELSE DigitsValue(body)]
      ELSE [ok |-> FALSE, val |-> 0]

RECURSIVE NatStr(_)
NatStr(n) ==
  IF n < 10 THEN <<Digits[n + 1]>>
  ELSE NatStr(n \div 10) \o <<Digits[(n % 10) + 1]>>

\* str(n) for an int, as "{lower}".format_map(...) renders it.  The digits
\* of a negative n are taken without negating it: -2**31 has no positive
\* counterpart in TLC's integers.
IntStr(n) ==
  IF n >= 0 THEN NatStr(n)
  ELSE LET last == (10 - (n % 10)) % 10
           high == 0 - ((n + last) \div 10)
       IN  <<"-">> \o (IF high = 0 THEN <<>> ELSE NatStr(high))
                  \o <<Digits[last + 1]>>

\* sep.join(items)
RECURSIVE Join(_, _)
Join(items, sep) ==
  IF items = <<>> THEN <<>>
  ELSE IF Len(items) = 1 THEN items[1]
  ELSE items[1] \o sep \o Join(Tail(items), sep)

\* repr() of a list of str, as "{groups}".format_map(...) renders it
ReprList(items) ==
  <<"[">> \o Join([i \in 1..Len(items) |-> <<"'">> \o items[i] \o <<"'">>],
                  <<",", " ">>) \o <<"]">>

\* text.split(sep) for a one-character separator
RECURSIVE Split(_, _)
Split(t, sep) ==
  IF \A i \in 1..Len(t) : t[i] # sep THEN <<t>>
  ELSE LET k == CHOOSE i \in 1..Len(t) :
                  t[i] = sep /\ \A j \in 1..(i - 1) : t[j] # sep
       IN  <<SubSeq(t, 1, k - 1)>> \o Split(SubSeq(t, k + 1, Len(t)), sep)

(***************************************************************************)
(* Values: what a call can return, and what default=, help=, error= and    *)
(* label= can hold.  One record shape for all of them.                     *)
(***************************************************************************)
None == [t |-> "None", n |-> 0, s |-> <<>>]

IntV(i) == [t |-> "int", n |-> i, s |-> <<>>]

StrV(x) == [t |-> "str", n |-> 0, s |-> x]

\* datetime.date(y, m, d)
DateV(y, m, d) == [t |-> "date", n |-> (y * 10000) + (m * 100) + d, s |-> <<>>]

\* datetime.time(h, m, s)
TimeV(h, m, sec) == [t |-> "time", n |-> (h * 3600) + (m * 60) + sec, s |-> <<>>]

\* pathlib.PosixPath
PathV(x) == [t |-> "path", n |-> 0, s |-> x]

\* bool(v), which `while not response` applies: None, 0 and '' are false;
\* dates, times and paths are always true.
Truthy(v) ==
  CASE v.t = "None" -> FALSE
    [] v.t = "int" -> v.n # 0
    [] v.t = "str" -> v.s # <<>>
    [] OTHER -> TRUE

(***************************************************************************)
(* Regular expressions: a pattern is a sequence of atoms, each a character *)
(* class with a quantifier: \d+ is <<[cls |-> "d", quant |-> "+", n |-> 0]>>*)
(* and \d{2} is <<[cls |-> "d", quant |-> "{}", n |-> 2]>>.                *)
(***************************************************************************)
InClass(cls, c) ==
  CASE cls = "d" -> IsDigit(c)
    [] cls = "w" -> IsDigit(c) \/ IsUpper(c) \/ IsLowerLetter(c) \/ c = "_"
    [] OTHER -> FALSE

AtomMin(atom) ==
  CASE atom.quant = "+" -> 1
    [] atom.quant = "{}" -> atom.n
    [] OTHER -> 1

\* the most characters the atom can take of `avail`
AtomMax(atom, avail) ==
  CASE atom.quant = "+" -> avail
    [] atom.quant = "{}" -> atom.n
    [] OTHER -> 1

\* pattern.match(text): a match starting at position 0, not anchored at the end
RECURSIVE MatchAt(_, _, _)
MatchAt(pat, text, pos) ==
  IF pat = <<>> THEN TRUE
  ELSE LET atom == Head(pat)
           avail == Len(text) - pos + 1
       IN  \E k \in AtomMin(atom)..AtomMax(atom, avail) :
             /\ k <= avail
             /\ \A i \in pos..(pos + k - 1) : InClass(atom.cls, text[i])
             /\ MatchAt(Tail(pat), text, pos + k)

ReMatch(pat, text) == MatchAt(pat, text, 1)

(***************************************************************************)
(* Templates: HELP, ERROR.  A template is a sequence of pieces: literal    *)
(* text, a named replacement field {name}, or a positional field {2}.      *)
(***************************************************************************)
\* literal text given as one chunk
Lit(x) == [lit |-> <<x>>, field |-> "", pos |-> FALSE]

\* literal text given as a text
LitT(x) == [lit |-> x, field |-> "", pos |-> FALSE]

Fld(name) == [lit |-> <<>>, field |-> name, pos |-> FALSE]

\* {x} with x a number
Pos(x) == [lit |-> x, field |-> "", pos |-> TRUE]

\* The pieces str.format_map finds in the source text of a pattern: a {n}
\* quantifier reads as a positional replacement field.
RECURSIVE PatternPieces(_)
PatternPieces(pat) ==
  IF pat = <<>> THEN <<>>
  ELSE LET atom == Head(pat)
       IN  <<LitT(<<"\\", atom.cls>>)>>
           \o (IF atom.quant = "{}" THEN <<Pos(IntStr(atom.n))>>
               ELSE <<Lit(atom.quant)>>)
           \o PatternPieces(Tail(pat))

CKUI_HELP ==
  <<Lit("Please enter a string which contains no embedded,\nleading or trailing spaces or tabs\n")>>

CKUI_ERROR ==
  <<Lit("ERROR: Please enter a string which contains no embedded,\nleading or trailing spaces or tabs.\n")>>

CKDATE_HELP == <<Lit("Please enter a date. Format is "), Fld("format"), Lit(".")>>

CKDATE_ERROR ==
  <<Lit("ERROR - Please enter a date.  Format is "), Fld("format"), Lit(".")>>

CKINT_HELP == <<Lit("Please enter an integer.")>>

CKINT_ERROR == <<Lit("ERROR - Please enter an integer.")>>

CKITEM_HELP ==
  <<Lit("\nEnter the number of the menu item you wish to select, ... Enter ? to\nreprint the menu.\n")>>

CKKEYWD_HELP == <<Fld("keywords"), Lit(",q")>>

CKKEYWD_ERROR ==
  <<Lit("ERROR: Please enter one of the following keywords: "),
    Fld("keywords"), Lit(",q")>>

CKPATH_HELP == <<Lit("Enter a pathname")>>

CKPATH_ERROR == <<Lit("ERROR: Invalid pathname")>>

CKRANGE_HELP ==
  <<Lit("Please enter an integer between "), Fld("lower"), Lit(" and "),
    Fld("upper"), Lit(".")>>

CKRANGE_ERROR ==
  <<Lit("ERROR - Please enter an integer between "), Fld("lower"),
    Lit(" and "), Fld("upper"), Lit(".")>>

CKTIME_HELP == <<Lit("Please enter a time. Format is "), Fld("format"), Lit(".")>>

CKTIME_ERROR ==
  <<Lit("ERROR - Please enter a time.  Format is "), Fld("format"), Lit(".")>>

CKYORN_HELP ==
  <<Lit("\nTo respond in the affirmative, enter y, yes, Y, or YES.\nTo respond in the negative, enter n, no, N, or NO.\n")>>

CKYORN_ERROR == <<Lit("ERROR - Please enter yes or no.")>>

CKGID_HELP ==
  <<Lit("Please enter one of the following group names: "), Fld("groups")>>

CKGID_ERROR ==
  <<Lit("ERROR - Please enter one of the following group names: "),
    Fld("groups")>>

CKUID_HELP ==
  <<Lit("Please enter one of the following user names: "), Fld("users")>>

CKUID_ERROR ==
  <<Lit("ERROR - Please enter one of the following user names: "),
    Fld("users")>>

\* The HELP and ERROR an instance of each class finds on its class (CKITEM
\* defines no ERROR and CKSTR neither: they inherit CKUI's and CKINT's).
ClassHELP(r) ==
  CASE r = "ckdate" -> CKDATE_HELP
    [] r = "ckgid" -> CKGID_HELP
    [] r = "ckint" -> CKINT_HELP
    [] r = "ckitem" -> CKITEM_HELP
    [] r = "ckkeywd" -> CKKEYWD_HELP
    [] r = "ckpath" -> CKPATH_HELP
    [] r = "ckrange" -> CKRANGE_HELP
    [] r = "ckstr" -> CKINT_HELP
    [] r = "cktime" -> CKTIME_HELP
    [] r = "ckuid" -> CKUID_HELP
    [] r = "ckyorn" -> CKYORN_HELP
    [] OTHER -> CKUI_HELP

ClassERROR(r) ==
  CASE r = "ckdate" -> CKDATE_ERROR
    [] r = "ckgid" -> CKGID_ERROR
    [] r = "ckint" -> CKINT_ERROR
    [] r = "ckitem" -> CKUI_ERROR
    [] r = "ckkeywd" -> CKKEYWD_ERROR
    [] r = "ckpath" -> CKPATH_ERROR
    [] r = "ckrange" -> CKRANGE_ERROR
    [] r = "ckstr" -> CKINT_ERROR
    [] r = "cktime" -> CKTIME_ERROR
    [] r = "ckuid" -> CKUID_ERROR
    [] r = "ckyorn" -> CKYORN_ERROR
    [] OTHER -> CKUI_ERROR

(***************************************************************************)
(* The instance: vars(self).  `has` holds the names of the attributes the  *)
(* instance has been given; reading one it has not raises AttributeError,  *)
(* and the class's HELP and ERROR show through until the instance is given *)
(* its own.                                                                *)
(***************************************************************************)
NoPattern == <<>>

FreshSelf ==
  [has |-> {}, format |-> <<>>, lower |-> 0, upper |-> 0,
   regexp |-> NoPattern, HELP |-> <<>>, ERROR |-> <<>>,
   label |-> None, menu |-> <<>>, items |-> <<>>, keywords |-> <<>>,
   groups |-> <<>>, users |-> <<>>]

\* self.HELP, self.ERROR: the instance's attribute if it has one, else the class's
SelfHELP(r, self) == IF "HELP" \in self.has THEN self.HELP ELSE ClassHELP(r)

SelfERROR(r, self) == IF "ERROR" \in self.has THEN self.ERROR ELSE ClassERROR(r)

\* str() of the attribute a named field is replaced by
FieldText(self, name) ==
  CASE name = "format" -> self.format
    [] name = "lower" -> IntStr(self.lower)
    [] name = "upper" -> IntStr(self.upper)
    [] name = "keywords" -> self.keywords
    [] name = "groups" -> ReprList(self.groups)
    [] name = "users" -> ReprList(self.users)
    [] OTHER -> <<>>

\* template.format_map(vars(self)): the text, or the exception of the first
\* field that cannot be replaced (a positional field: ValueError; a name the
\* instance does not have: KeyError).
RECURSIVE FormatMap(_, _)
FormatMap(tpl, self) ==
  IF tpl = <<>> THEN [exc |-> "", text |-> <<>>]
  ELSE LET p == Head(tpl)
           rest == FormatMap(Tail(tpl), self)
       IN  IF p.pos THEN [exc |-> "ValueError", text |-> <<>>]
           ELSE IF p.field # "" /\ p.field \notin self.has
                THEN [exc |-> "KeyError", text |-> <<>>]
           ELSE IF rest.exc # "" THEN rest
           ELSE [exc |-> "",
                 text |-> (IF p.field # "" THEN FieldText(self, p.field)
                           ELSE p.lit) \o rest.text]

\* CKUI.help
help(r, self) == FormatMap(SelfHELP(r, self), self)

\* CKUI.error
error(r, self) == FormatMap(SelfERROR(r, self), self)

(***************************************************************************)
(* datetime.datetime.strptime for the directives the default formats use.  *)
(***************************************************************************)
\* The ways the directive `d` can read a number at the head of `t`: a set
\* of [val, rest].  %m is 1[0-2]|0[1-9]|[1-9], %d is 3[01]|[12]\d|0[1-9]|
\* [1-9]| [1-9], %y is \d\d, %H is 2[0-3]|[0-1]\d|\d, %M is [0-5]\d|\d and
\* %S is 6[0-1]|[0-5]\d|\d.
DirectiveReads(d, t) ==
  LET lo == IF d \in {"m", "d"} THEN 1 ELSE 0
      hi == CASE d = "m" -> 12 [] d = "d" -> 31 [] d = "y" -> 99
              [] d = "H" -> 23 [] d = "M" -> 59 [] d = "S" -> 61
              [] OTHER -> 0 - 1
      widths == IF d = "y" THEN {2} ELSE {1, 2}
      plain == { [val |-> DigitsValue(SubSeq(t, 1, k)),
                  rest |-> SubSeq(t, k + 1, Len(t))] :
                 k \in { w \in widths :
                           /\ w <= Len(t)
                           /\ AllDigits(SubSeq(t, 1, w))
                           /\ DigitsValue(SubSeq(t, 1, w)) \in lo..hi } }
      blank == IF d = "d" /\ Len(t) >= 2 /\ t[1] = " " /\ IsDigit(t[2])
                  /\ t[2] # "0"
               THEN { [val |-> DigitVal(t[2]), rest |-> SubSeq(t, 3, Len(t))] }
               ELSE {}
  IN  plain \cup blank

\* Every way `text` matches the whole of `fmt`: a set of field assignments.
RECURSIVE StrptimeParses(_, _, _)
StrptimeParses(fmt, text, acc) ==
  IF fmt = <<>> THEN (IF text = <<>> THEN {acc} ELSE {})
  ELSE IF Head(fmt) = "%" /\ Len(fmt) >= 2
       THEN UNION { StrptimeParses(SubSeq(fmt, 3, Len(fmt)), r.rest,
                                   [acc EXCEPT ![fmt[2]] = r.val]) :
                    r \in DirectiveReads(fmt[2], text) }
       ELSE IF text # <<>> /\ Head(text) = Head(fmt)
            THEN StrptimeParses(Tail(fmt), Tail(text), acc)
            ELSE {}

IsLeap(y) == (y % 4 = 0) /\ ((y % 100 # 0) \/ (y % 400 = 0))

DaysIn(y, m) ==
  CASE m = 2 -> (IF IsLeap(y) THEN 29 ELSE 28)
    [] m \in {4, 6, 9, 11} -> 30
    [] OTHER -> 31

\* strptime(text, fmt): [ok |-> FALSE] stands for ValueError.  A two-digit
\* year up to 68 is 20xx, from 69 on 19xx; without %y the year is 1900.
Strptime(text, fmt) ==
  LET start == [m |-> 1, d |-> 1, y |-> 0 - 1, H |-> 0, M |-> 0, S |-> 0]
      parses == StrptimeParses(fmt, text, start)
      f == CHOOSE x \in parses : TRUE
      year == IF f.y < 0 THEN 1900
              ELSE IF f.y <= 68 THEN 2000 + f.y ELSE 1900 + f.y
  IN  IF parses = {} THEN [ok |-> FALSE, date |-> None, time |-> None]
      ELSE IF f.d > DaysIn(year, f.m) \/ f.S > 59
           THEN [ok |-> FALSE, date |-> None, time |-> None]
           ELSE [ok |-> TRUE, date |-> DateV(year, f.m, f.d),
                 time |-> TimeV(f.H, f.M, f.S)]

(***************************************************************************)
(* validate, class by class.  The outcome is the value returned, Invalid   *)
(* (with the InputType it carries, if any) or another exception.           *)
(***************************************************************************)
Returns(v) == [kind |-> "ok", val |-> v, tag |-> ""]

RaisesInvalid(tag) == [kind |-> "Invalid", val |-> None, tag |-> tag]

Raises(exc) == [kind |-> exc, val |-> None, tag |-> ""]

NotCalled == [kind |-> "none", val |-> None, tag |-> ""]

CKDATE_validate(self, text) ==
  LET dt == Strptime(text, self.format)
  IN  IF dt.ok THEN Returns(dt.date) ELSE RaisesInvalid("")

CKTIME_validate(self, text) ==
  LET dt == Strptime(text, self.format)
  IN  IF dt.ok THEN Returns(dt.time) ELSE RaisesInvalid("")

CKINT_validate(self, text) ==
  LET i == ParseInt(text)
  IN  IF i.ok THEN Returns(IntV(i.val)) ELSE RaisesInvalid("")

CKRANGE_validate(self, text) ==
  LET v == ParseInt(text)
  IN  IF v.ok /\ self.lower <= v.val /\ v.val <= self.upper
      THEN Returns(IntV(v.val))
      ELSE RaisesInvalid("")

\* the prefix matching CKITEM.validate and CKKEYWD.validate share: the text
\* is lowercased, the items are not
PrefixMatches(items, text) ==
  LET text_lower == Lower(text)
  IN  SelectSeq(items, LAMBDA item : StartsWith(item, text_lower))

\* CKITEM.validate with the index checked against the menu that is shown
\* instead of the combined list
CKITEM_validate_menu_only(self, text) ==
  LET item_num == ParseInt(text)
      matches == PrefixMatches(self.items, text)
  IN  IF item_num.ok
      THEN IF 1 <= item_num.val /\ item_num.val <= Len(self.menu)
           THEN Returns(StrV(self.menu[item_num.val]))
           ELSE RaisesInvalid("NUMERIC")
      ELSE IF Len(matches) = 1 THEN Returns(StrV(matches[1]))
           ELSE RaisesInvalid("TEXT")

CKITEM_validate(self, text) ==
  LET item_num == ParseInt(text)
      matches == PrefixMatches(self.items, text)
  IN  IF item_num.ok
      THEN IF 1 <= item_num.val /\ item_num.val <= Len(self.items)
           THEN Returns(StrV(self.items[item_num.val]))
           ELSE RaisesInvalid("NUMERIC")
      ELSE IF Len(matches) = 1 THEN Returns(StrV(matches[1]))
           ELSE RaisesInvalid("TEXT")

CKKEYWD_validate(self, text) ==
  LET matches == PrefixMatches(self.items, text)
  IN  IF Len(matches) = 1 THEN Returns(StrV(matches[1]))
      ELSE RaisesInvalid("TEXT")

\* PurePosixPath's root: exactly two leading slashes are kept as "//"
PathRoot(text) ==
  IF text = <<>> \/ Head(text) # "/" THEN <<>>
  ELSE IF Len(text) >= 2 /\ text[2] = "/" /\ (Len(text) = 2 \/ text[3] # "/")
       THEN <<"/", "/">>
       ELSE <<"/">>

\* the parts pathlib keeps: empty and "." components are dropped
PathParts(text) ==
  SelectSeq(Split(text, "/"), LAMBDA part : part # <<>> /\ part # <<".">>)

CKPATH_validate(self, text) ==
  IF PathRoot(text) = <<"/">>
  THEN Returns(PathV(<<"/">> \o Join(PathParts(text), <<"/">>)))
  ELSE RaisesInvalid("")

\* None where a compiled pattern is expected
PyNone == <<[cls |-> "None", quant |-> "", n |-> 0]>>

CKSTR_validate(self, text) ==
  IF "regexp" \notin self.has THEN Raises("AttributeError")
  ELSE IF self.regexp = PyNone THEN Returns(StrV(text))
  ELSE IF ReMatch(self.regexp, text) THEN Returns(StrV(text))
  ELSE RaisesInvalid("")

CKYORN_validate(self, text) ==
  LET clean_text == Lower(text)
  IN  IF clean_text = <<"y">> THEN Returns(StrV(<<"y", "e", "s">>))
      ELSE IF clean_text = <<"n">> THEN Returns(StrV(<<"n", "o">>))
      ELSE IF clean_text \in {<<"y", "e", "s">>, <<"n", "o">>}
           THEN Returns(StrV(clean_text))
           ELSE RaisesInvalid("")

InList(x, list) == \E i \in 1..Len(list) : list[i] = x

CKGID_validate(self, text) ==
  LET name == Lower(text)
  IN  IF InList(name, self.groups) THEN Returns(StrV(name)) ELSE RaisesInvalid("")

CKUID_validate(self, text) ==
  LET name == Lower(text)
  IN  IF InList(name, self.users) THEN Returns(StrV(name)) ELSE RaisesInvalid("")

\* self.validate(text) by the class of the instance
validate(r, self, text) ==
  CASE r = "ckdate" -> CKDATE_validate(self, text)
    [] r = "ckgid" -> CKGID_validate(self, text)
    [] r = "ckint" -> CKINT_validate(self, text)
    [] r = "ckitem" -> CKITEM_validate(self, text)
    [] r = "ckkeywd" -> CKKEYWD_validate(self, text)
    [] r = "ckpath" -> CKPATH_validate(self, text)
    [] r = "ckrange" -> CKRANGE_validate(self, text)
    [] r = "ckstr" -> CKSTR_validate(self, text)
    [] r = "cktime" -> CKTIME_validate(self, text)
    [] r = "ckuid" -> CKUID_validate(self, text)
    [] OTHER -> CKYORN_validate(self, text)

(***************************************************************************)
(* The texts the console and the callers use in this model.                *)
(***************************************************************************)
T_q == <<"q">>
T_Q == <<"Q">>
T_quit == <<"q", "u", "i", "t">>
T_Quit == <<"Q", "u", "i", "t">>
T_QUIT == <<"Q", "U", "I", "T">>
T_help == <<"?">>
T_menu == <<"?", "?">>
T_x == <<"x">>
T_0 == <<"0">>
T_1 == <<"1">>
T_3 == <<"3">>
T_4 == <<"4">>
T_42 == <<"4", "2">>
T_minus1 == <<"-", "1">>
T_plus2 == <<"+", "2">>
T_th == <<"t", "h">>
T_TH == <<"T", "H">>
T_this == <<"t", "h", "i", "s">>
T_This == <<"T", "h", "i", "s">>
T_that == <<"t", "h", "a", "t">>
T_qu == <<"q", "u">>
T_0x == <<"0", "x">>
T_y == <<"y">>
T_YES == <<"Y", "E", "S">>
T_n == <<"n">>
T_no == <<"n", "o">>
T_yes == <<"y", "e", "s">>
T_abc == <<"a", "b", "c">>
T_12 == <<"1", "2">>
T_a1 == <<"a", "1">>
T_date == <<"9", "/", "1", "0", "/", "1", "1">>
T_feb30 == <<"2", "/", "3", "0", "/", "1", "1">>
T_time == <<"9", ":", "1", "0", ":", "1", "1">>
T_sec60 == <<"9", ":", "1", "0", ":", "6", "0">>
T_etc == <<"e", "t", "c">>
T_slash_etc == <<"/", "e", "t", "c">>
T_slash2_etc == <<"/", "/", "e", "t", "c">>
T_etc_dot == <<"/", "e", "t", "c", "/", ".", "/", "x", "/">>
T_adm == <<"a", "d", "m">>
T_ADM == <<"A", "D", "M">>
T_under == <<"_", "x">>
T_root == <<"r", "o", "o", "t">>
T_Root == <<"R", "o", "o", "t">>
T_dflt == <<"d", "f", "l", "t">>
T_H == <<"H">>
T_E == <<"E">>
T_L == <<"L">>

\* CKDATE.__call__ and CKTIME.__call__: the defaults of format=
DATE_FORMAT == <<"%", "m", "/", "%", "d", "/", "%", "y">>
TIME_FORMAT == <<"%", "H", ":", "%", "M", ":", "%", "S">>

\* /etc/group and /etc/passwd as the calls of this model find them
GroupFile == << <<"a", "d", "m", ":", "*", ":", "4", ":", "r", "o", "o", "t">>, <<"_", "x", ":", "*", ":", "7", "0", ":">>, <<"O", "p", "s", ":", "*", ":", "2", "0", ":", "r", "o", "o", "t", ",", "a", "d", "m", " ", "#", " ", "s", "t", "a", "f", "f">> >>
PasswdFile == << <<"r", "o", "o", "t", ":", "x", ":", "0", ":", "0", ":", "r", "o", "o", "t", ":", "/", "r", "o", "o", "t", ":", "/", "b", "i", "n", "/", "s", "h">>, <<"A", "d", "m", ":", "x", ":", "3", ":", "4", ":", "a", "d", "m", ":", "/", "v", "a", "r", "/", "a", "d", "m", ":", "/", "b", "i", "n", "/", "s", "h">> >>

\* the lines the console can deliver to a call of each rule
CommonLines == {<<>>, T_q, T_Q, T_quit, T_Quit, T_QUIT, T_help}

Lines(r) ==
  CommonLines \cup
  CASE r = "ckdate" -> {T_date, T_feb30, T_x}
    [] r = "ckgid" -> {T_adm, T_ADM, T_under, T_x}
    [] r = "ckint" -> {T_0, T_42, T_minus1, T_x}
    [] r = "ckitem" -> {T_menu, T_0, T_1, T_3, T_4, T_minus1, T_plus2,
                        T_th, T_TH, T_this, T_This, T_that, T_qu, T_x}
    [] r = "ckkeywd" -> {T_th, T_TH, T_this, T_This, T_that, T_x}
    [] r = "ckpath" -> {T_etc, T_slash_etc, T_slash2_etc, T_etc_dot}
    [] r = "ckrange" -> {T_0, T_4, T_42, T_x}
    [] r = "ckstr" -> {T_abc, T_12, T_a1, T_1}
    [] r = "cktime" -> {T_time, T_sec60, T_x}
    [] r = "ckuid" -> {T_root, T_Root, T_x}
    [] OTHER -> {T_y, T_YES, T_n, T_no, T_x}

Rules ==
  {"ckdate", "ckgid", "ckint", "ckitem", "ckkeywd", "ckpath", "ckrange",
   "ckstr", "cktime", "ckuid", "ckyorn"}

\* the arguments the callers of this model pass
Defaults == {None, IntV(0), StrV(T_dflt)}

Helps == {None, StrV(T_H)}

Errors == {None, StrV(T_E)}

P_digits == <<[cls |-> "d", quant |-> "+", n |-> 0]>>

P_word_digits ==
  <<[cls |-> "w", quant |-> "+", n |-> 0], [cls |-> "d", quant |-> "+", n |-> 0]>>

P_two_digits == <<[cls |-> "d", quant |-> "{}", n |-> 2]>>

\* an optional argument: None, or a list of texts or a pattern source
Absent == [none |-> TRUE, val |-> <<>>]

Given(x) == [none |-> FALSE, val |-> x]

\* regexp=: None, \d+, \w+\d+, \d{2}
Regexps == {Absent, Given(P_digits), Given(P_word_digits), Given(P_two_digits)}

\* choices= and keywords=
ChoiceLists == {Absent, Given(<<T_this, T_that>>), Given(<<T_This, T_that>>)}

\* invisible=: items a line can select although "q", "quit" and "0" never
\* reach validate as prefixes
InvisibleLists == {Absent, Given(<<T_quit, T_0x>>)}

\* label=: None, "L", and "" (which show_menu does not print)
Labels == {None, StrV(T_L), StrV(<<>>)}

\* lower=, upper=: the defaults -2**31 and 2**31-1, and the bounds of the tests
RangeBounds ==
  {[lower |-> (0 - (2 ^ 30)) - (2 ^ 30), upper |-> ((2 ^ 30) - 1) + (2 ^ 30)],
   [lower |-> 1, upper |-> 10]}

(***************************************************************************)
(* The state                                                               *)
(***************************************************************************)
VARIABLES
  rule,      \* which module-level instance this behaviour follows
  self,      \* vars(self): the instance's attributes, kept between calls
  cfg,       \* the keyword arguments of the call in progress
  pc,        \* "idle", "input" (blocked in input()), "returned", "raised"
  exc,       \* the exception that left the call, "" if none
  response,  \* the local variable `response`; the value returned
  reads,     \* calls of input() made by the call in progress
  out,       \* the lines print() was given by the call in progress
  got,       \* what the last input() gave: "nothing", "line", "EOF"
  a,         \* the line the last input() returned
  v          \* what validate did in the last iteration, NotCalled if not called

vars == <<rule, self, cfg, pc, exc, response, reads, out, got, a, v>>

NoArgs ==
  [default |-> None, help |-> None, error |-> None, label |-> None,
   choices |-> Absent, invisible |-> Absent, keywords |-> Absent,
   regexp |-> Absent]

\* prompt=, default=, help=, error= of a call.  The prompt text only ever
\* reaches input(), so the model leaves it out.
CommonArgs ==
  { [NoArgs EXCEPT !.default = d, !.help = h, !.error = e] :
    d \in Defaults, h \in Helps, e \in Errors }

Init ==
  /\ rule \in Rules
  /\ self = FreshSelf
  /\ cfg = NoArgs
  /\ pc = "idle"
  /\ exc = ""
  /\ response = None
  /\ reads = 0
  /\ out = <<>>
  /\ got = "nothing"
  /\ a = <<>>
  /\ v = NotCalled

\* a call can start when the instance is not in a call
CanCall == pc = "idle"

\* The caller has the value or the exception and goes on, as demo() does
\* between its two calls of ckint: the frame of the call is gone and the
\* instance keeps its attributes.
CallerResumes ==
  /\ pc \in {"returned", "raised"}
  /\ pc' = "idle"
  /\ cfg' = NoArgs
  /\ exc' = ""
  /\ response' = None
  /\ reads' = 0
  /\ out' = <<>>
  /\ got' = "nothing"
  /\ a' = <<>>
  /\ v' = NotCalled
  /\ UNCHANGED <<rule, self>>

(***************************************************************************)
(* The prologues: each class's __call__ up to the first input().           *)
(***************************************************************************)
\* CKUI.__call__ 85-89: the loop is entered with response = None
EnterLoop(args, printed) ==
  /\ cfg' = args
  /\ pc' = "input"
  /\ exc' = ""
  /\ response' = None
  /\ reads' = 0
  /\ out' = printed
  /\ got' = "nothing"
  /\ a' = <<>>
  /\ v' = NotCalled

\* an exception raised by the prologue leaves the call before any input()
RaiseAtCall(args, e) ==
  /\ cfg' = args
  /\ pc' = "raised"
  /\ exc' = e
  /\ response' = None
  /\ reads' = 0
  /\ out' = <<>>
  /\ got' = "nothing"
  /\ a' = <<>>
  /\ v' = NotCalled

\* ckint(...), ckpath(...), ckyorn(...): CKUI.__call__ itself
CKUI_call(args) ==
  /\ CanCall
  /\ rule \in {"ckint", "ckpath", "ckyorn"}
  /\ self' = self
  /\ EnterLoop(args, <<>>)
  /\ UNCHANGED rule

CKDATE_call(args, format) ==
  /\ CanCall
  /\ rule = "ckdate"
  /\ self' = [self EXCEPT !.has = @ \cup {"format"}, !.format = format]
  /\ EnterLoop(args, <<>>)
  /\ UNCHANGED rule

CKTIME_call(args, format) ==
  /\ CanCall
  /\ rule = "cktime"
  /\ self' = [self EXCEPT !.has = @ \cup {"format"}, !.format = format]
  /\ EnterLoop(args, <<>>)
  /\ UNCHANGED rule

CKRANGE_call(args, lower, upper) ==
  /\ CanCall
  /\ rule = "ckrange"
  /\ self' = [self EXCEPT !.has = @ \cup {"lower", "upper"},
                          !.lower = lower, !.upper = upper]
  /\ EnterLoop(args, <<>>)
  /\ UNCHANGED rule

\* CKSTR.__call__: the three attributes are set only when regexp= is given,
\* and are left as they are when it is not
CKSTR_HELP(regexp) ==
  <<Lit("Please enter a sptring that matches the following pattern:\n")>>
  \o PatternPieces(regexp)

CKSTR_call(args) ==
  /\ CanCall
  /\ rule = "ckstr"
  /\ self' = IF ~args.regexp.none
             THEN [self EXCEPT !.has = @ \cup {"regexp", "HELP", "ERROR"},
                               !.regexp = args.regexp.val,
                               !.HELP = CKSTR_HELP(args.regexp.val),
                               !.ERROR = <<Lit("ERROR: ")>>
                                         \o CKSTR_HELP(args.regexp.val)]
             ELSE self
  /\ EnterLoop(args, <<>>)
  /\ UNCHANGED rule

\* CKKEYWD.__call__: self.format is given the builtin `format` first
CKKEYWD_call(args) ==
  /\ CanCall
  /\ rule = "ckkeywd"
  /\ IF args.keywords.none
     THEN /\ self' = [self EXCEPT !.has = @ \cup {"format"},
                                  !.format = <<"<built-in function format>">>]
          /\ RaiseAtCall(args, "ValueError")
     ELSE /\ self' = [self EXCEPT !.has = @ \cup {"format", "items", "keywords"},
                                  !.format = <<"<built-in function format>">>,
                                  !.items = args.keywords.val,
                                  !.keywords = Join(args.keywords.val, <<",">>)]
          /\ EnterLoop(args, <<>>)
  /\ UNCHANGED rule

\* the names of an account file: each line up to its "#", the empty ones
\* dropped, split on ":"; the first field
AccountLines(file) ==
  SelectSeq([i \in 1..Len(file) |-> Split(file[i], "#")[1]],
            LAMBDA line : line # <<>>)

\* CKGID.exclude
exclude(name) == StartsWith(name, <<"_">>)

\* CKGID.get_groups: TypeError when a line has not four fields
get_groups(file) ==
  LET fields == [i \in 1..Len(AccountLines(file)) |->
                   Split(AccountLines(file)[i], ":")]
      kept == SelectSeq(fields, LAMBDA g : ~exclude(g[1]))
  IN  IF \E i \in 1..Len(fields) : Len(fields[i]) # 4
      THEN [exc |-> "TypeError", names |-> <<>>]
      ELSE [exc |-> "", names |-> [i \in 1..Len(kept) |-> Lower(kept[i][1])]]

\* CKUID.get_users: TypeError when a line has not seven fields
get_users(file) ==
  LET fields == [i \in 1..Len(AccountLines(file)) |->
                   Split(AccountLines(file)[i], ":")]
  IN  IF \E i \in 1..Len(fields) : Len(fields[i]) # 7
      THEN [exc |-> "TypeError", names |-> <<>>]
      ELSE [exc |-> "", names |-> [i \in 1..Len(fields) |-> Lower(fields[i][1])]]

CKGID_call(args) ==
  /\ CanCall
  /\ rule = "ckgid"
  /\ LET g == get_groups(GroupFile)
     IN  IF g.exc # ""
         THEN self' = self /\ RaiseAtCall(args, g.exc)
         ELSE /\ self' = [self EXCEPT !.has = @ \cup {"groups"}, !.groups = g.names]
              /\ EnterLoop(args, <<>>)
  /\ UNCHANGED rule

CKUID_call(args) ==
  /\ CanCall
  /\ rule = "ckuid"
  /\ LET u == get_users(PasswdFile)
     IN  IF u.exc # ""
         THEN self' = self /\ RaiseAtCall(args, u.exc)
         ELSE /\ self' = [self EXCEPT !.has = @ \cup {"users"}, !.users = u.names]
              /\ EnterLoop(args, <<>>)
  /\ UNCHANGED rule

\* show_menu listing every item that can be matched, the invisible ones too
show_menu_all_items(self_) ==
  (IF Truthy(self_.label) THEN <<self_.label.s>> ELSE <<>>)
  \o [n \in 1..Len(self_.items) |-> IntStr(n) \o <<": ">> \o self_.items[n]]

\* CKITEM.show_menu: the lines it prints
show_menu(self_) ==
  (IF Truthy(self_.label) THEN <<self_.label.s>> ELSE <<>>)
  \o [n \in 1..Len(self_.menu) |-> IntStr(n) \o <<": ">> \o self_.menu[n]]

\* CKITEM.__call__ without the test of choices: None is taken as no choices
\* and the loop is entered
CKITEM_call_no_check(args) ==
  /\ CanCall
  /\ rule = "ckitem"
  /\ LET s1 == [self EXCEPT
                  !.has = @ \cup {"label", "menu", "items"},
                  !.label = args.label,
                  !.menu = args.choices.val,
                  !.items = args.choices.val \o
                            (IF args.invisible.none THEN <<>>
                             ELSE args.invisible.val)]
     IN  /\ self' = s1
         /\ EnterLoop(args, show_menu(s1))
  /\ UNCHANGED rule

CKITEM_call(args) ==
  /\ CanCall
  /\ rule = "ckitem"
  /\ IF args.choices.none
     THEN self' = self /\ RaiseAtCall(args, "ValueError")
     ELSE LET s1 == [self EXCEPT
                       !.has = @ \cup {"label", "menu", "items"},
                       !.label = args.label,
                       !.menu = args.choices.val,
                       !.items = args.choices.val \o
                                 (IF args.invisible.none THEN <<>>
                                  ELSE args.invisible.val)]
          IN  /\ self' = s1
              /\ EnterLoop(args, show_menu(s1))
  /\ UNCHANGED rule

(***************************************************************************)
(* The loops: one iteration is one input() and everything up to the next   *)
(* input(), the return or the exception.                                   *)
(***************************************************************************)
\* the quit test without .lower()
IsQuit_case_sensitive(x) == x \in {T_q, T_quit}

\* a.lower() in ['q', 'quit']
IsQuit(x) == Lower(x) \in {T_q, T_quit}

\* what an iteration did: the exception it raised ("" if none), the new
\* value of `response`, the lines it printed and what validate did
Did(e, resp, printed, res) ==
  [exc |-> e, resp |-> resp, printed |-> printed, v |-> res]

\* print(help if help is not None else self.help())
PrintHelp(r, self_, args, resp) ==
  IF args.help # None THEN Did("", resp, <<args.help.s>>, NotCalled)
  ELSE LET h == help(r, self_)
       IN  IF h.exc # "" THEN Did(h.exc, resp, <<>>, NotCalled)
           ELSE Did("", resp, <<h.text>>, NotCalled)

\* try: response = self.validate(a) / except Invalid: print(self.error())
\* The error= argument is not read here.
TryValidate(r, self_, args, resp, x) ==
  LET res == validate(r, self_, x)
      e == error(r, self_)
  IN  CASE res.kind = "ok" -> Did("", res.val, <<>>, res)
        [] res.kind = "Invalid" ->
             (IF e.exc # "" THEN Did(e.exc, resp, <<>>, res)
              ELSE Did("", resp, <<e.text>>, res))
        [] OTHER -> Did(res.kind, resp, <<>>, res)

\* CKUI.__call__ 95-105, given the line input() returned
CKUI_body(r, self_, args, resp, x) ==
  IF IsQuit(x) THEN Did("UserQuit", resp, <<>>, NotCalled)
  ELSE IF x = T_help THEN PrintHelp(r, self_, args, resp)
  ELSE IF x = <<>> /\ args.default # None
       THEN Did("", args.default, <<>>, NotCalled)
  ELSE TryValidate(r, self_, args, resp, x)

\* CKITEM.__call__ 208-220, given the line input() returned
CKITEM_body(r, self_, args, resp, x) ==
  IF IsQuit(x) THEN Did("UserQuit", resp, <<>>, NotCalled)
  ELSE IF x = T_help THEN PrintHelp(r, self_, args, resp)
  ELSE IF x = T_menu THEN Did("", resp, show_menu(self_), NotCalled)
  ELSE IF x = <<>> /\ args.default # None
       THEN Did("", args.default, <<>>, NotCalled)
  ELSE TryValidate(r, self_, args, resp, x)

\* what input() can give: a line while the console has one, or EOFError
EndOfInput == [eof |-> TRUE, line |-> <<>>]

ConsoleInputs ==
  {EndOfInput} \cup
  (IF reads < MaxReads THEN {[eof |-> FALSE, line |-> x] : x \in Lines(rule)}
   ELSE {})

\* the end of an iteration: the exception leaves the call, or `while not
\* response` is tested and the call returns or prompts again
EndIteration(inp, o) ==
  /\ reads' = reads + 1
  /\ got' = IF inp.eof THEN "EOF" ELSE "line"
  /\ a' = inp.line
  /\ v' = o.v
  /\ out' = out \o o.printed
  /\ response' = o.resp
  /\ exc' = o.exc
  /\ pc' = IF o.exc # "" THEN "raised"
           ELSE IF Truthy(o.resp) THEN "returned" ELSE "input"
  /\ UNCHANGED <<rule, self, cfg>>

\* CKUI.__call__ 90-106: one iteration
CKUI_iteration ==
  /\ pc = "input"
  /\ rule # "ckitem"
  /\ \E inp \in ConsoleInputs :
       EndIteration(inp,
         IF inp.eof THEN Did("UserQuit", response, <<>>, NotCalled)
         ELSE CKUI_body(rule, self, cfg, response, inp.line))

\* CKITEM.__call__ 203-221: one iteration
CKITEM_iteration ==
  /\ pc = "input"
  /\ rule = "ckitem"
  /\ \E inp \in ConsoleInputs :
       EndIteration(inp,
         IF inp.eof THEN Did("UserQuit", response, <<>>, NotCalled)
         ELSE CKITEM_body(rule, self, cfg, response, inp.line))

Next ==
  \/ \E args \in CommonArgs : CKUI_call(args)
  \/ \E args \in CommonArgs : CKDATE_call(args, DATE_FORMAT)
  \/ \E args \in CommonArgs : CKTIME_call(args, TIME_FORMAT)
  \/ \E args \in CommonArgs, b \in RangeBounds :
       CKRANGE_call(args, b.lower, b.upper)
  \/ \E args \in CommonArgs, re \in Regexps :
       CKSTR_call([args EXCEPT !.regexp = re])
  \/ \E args \in CommonArgs, kw \in ChoiceLists :
       CKKEYWD_call([args EXCEPT !.keywords = kw])
  \/ \E args \in CommonArgs : CKGID_call(args)
  \/ \E args \in CommonArgs : CKUID_call(args)
  \/ \E args \in CommonArgs, l \in Labels, c \in ChoiceLists, i \in InvisibleLists :
       CKITEM_call([args EXCEPT !.label = l, !.choices = c, !.invisible = i])
  \/ CKUI_iteration
  \/ CKITEM_iteration
  \/ CallerResumes

Spec == Init /\ [][Next]_vars

(***************************************************************************)
(* Properties                                                              *)
(***************************************************************************)
\* the lines that ask to quit: "q" and "quit" in any letter case
QuitTokens == {T_q, T_Q, T_quit, T_Quit, T_QUIT}

\* this step is one iteration of the loop that read a line
ReadsLine == pc = "input" /\ reads' = reads + 1 /\ got' = "line"

\* the line just read is one the loop hands to validate: not a quit token,
\* not a help key, not an empty line answered by a default
GoesToValidate(x) ==
  /\ x \notin QuitTokens
  /\ x # T_help
  /\ ~(rule = "ckitem" /\ x = T_menu)
  /\ ~(x = <<>> /\ cfg.default # None)

\* the integer a line of this model stands for
IntTexts == {T_0, T_1, T_3, T_4, T_42, T_12, T_minus1, T_plus2}

IntOf(x) ==
  CASE x = T_0 -> 0
    [] x = T_1 -> 1
    [] x = T_3 -> 3
    [] x = T_4 -> 4
    [] x = T_42 -> 42
    [] x = T_12 -> 12
    [] x = T_minus1 -> 0 - 1
    [] x = T_plus2 -> 2
    [] OTHER -> 0

\* the error text of the rule as the call built it
BuiltInError == error(rule, self).text

\* the help text of the rule as the call built it
BuiltInHelp == help(rule, self).text

\* C1: for every rule and every configured default, an empty line makes the
\* call return that default on the same iteration, without invoking
\* validate, without printing and without reading another line.
C1_EmptyLineReturnsDefault ==
  [][ (ReadsLine /\ a' = <<>> /\ cfg.default # None)
        => /\ pc' = "returned"
           /\ response' = cfg.default
           /\ v' = NotCalled
           /\ out' = out ]_vars

\* C2: a line that is not a quit token, not a help key and not an empty
\* line answered by a default, and on which validate succeeds, makes the
\* call return validate's result on that iteration with no further read;
\* the integer rule returns n for every text that parses as n, and the
\* string rule without a pattern returns the text it was given.
C2_ValidLineReturned ==
  [][ (ReadsLine /\ GoesToValidate(a'))
        => /\ v'.kind = "ok" => (pc' = "returned" /\ response' = v'.val)
           /\ (rule = "ckint" /\ a' \in IntTexts)
                => (pc' = "returned" /\ response' = IntV(IntOf(a')))
           /\ (rule = "ckstr" /\ cfg.regexp.none)
                => (pc' = "returned" /\ response' = StrV(a')) ]_vars

\* C3: at any iteration, for every rule, a line equal to "q" or "quit"
\* ignoring case, or end-of-input, makes the call signal UserQuit: no value
\* is returned and no further read is performed, whatever the default and
\* whether or not validate would have accepted the line.
C3_QuitSignalsUserQuit ==
  [][ /\ (pc = "input" /\ reads' = reads + 1
            /\ (got' = "EOF" \/ (got' = "line" /\ a' \in QuitTokens)))
        => (pc' = "raised" /\ exc' = "UserQuit")
      /\ (pc = "raised" /\ exc = "UserQuit")
        => (reads' # reads + 1 /\ pc' # "returned") ]_vars

\* C3 happens: "quit" was read by a menu call with a default whose
\* invisible item "quit" validate would have returned, after an earlier read
C3_Witness ==
  /\ rule = "ckitem"
  /\ got = "line"
  /\ a = T_quit
  /\ reads >= 2
  /\ cfg.default # None
  /\ validate(rule, self, a).kind = "ok"
  /\ exc = "UserQuit"

\* C4: a line on which validate signals Invalid never makes Invalid reach
\* the caller; it causes exactly one print of the error text and another
\* prompt, so k invalid lines and then one valid line make k+1 reads, k
\* prints of the error text and the return of the last line's value.
C4_InvalidThenValid ==
  [][ /\ (ReadsLine /\ v'.kind = "Invalid")
        => (pc' = "input" /\ out' = out \o <<BuiltInError>>)
      /\ exc' # "Invalid"
      /\ (ReadsLine /\ v'.kind = "ok"
            /\ Len(SelectSeq(out, LAMBDA l : l = BuiltInError)) = reads)
        => /\ pc' = "returned"
           /\ response' = v'.val
           /\ out' = out ]_vars

\* C5: the help and error texts the caller passes override the built-in
\* templates: a supplied error text is what is printed on each invalid
\* line, a supplied help text is what is printed on "?", and the built-in
\* text is printed only when none was supplied.
C5_TextsOverride ==
  [][ /\ (ReadsLine /\ v'.kind = "Invalid")
        => out' = out \o <<IF cfg.error # None THEN cfg.error.s
                           ELSE BuiltInError>>
      /\ (ReadsLine /\ a' = T_help)
        => out' = out \o <<IF cfg.help # None THEN cfg.help.s
                           ELSE BuiltInHelp>> ]_vars

\* C6: once prompting has started a call ends by returning a value or by
\* signalling UserQuit and in no other way, and no line is dropped: each
\* line read is returned for, or answered with help, menu or error text.
C6_OnlyReturnOrQuit ==
  [][ ReadsLine
        => /\ pc' = "raised" => exc' = "UserQuit"
           /\ pc' = "input" => (Len(out') > Len(out)) ]_vars

\* C7: a string-pattern call made with no regular expression accepts any
\* text verbatim, whatever calls the validator served before.
C7_NoPatternAcceptsAll ==
  [][ (ReadsLine /\ rule = "ckstr" /\ cfg.regexp.none /\ GoesToValidate(a'))
        => /\ v' = Returns(StrV(a'))
           /\ a' # <<>> => (pc' = "returned" /\ response' = StrV(a')) ]_vars

\* the menu as the claim describes it: the label if present, then each
\* visible choice as "{1-based index}: {choice}"
MenuOf(args) ==
  (IF args.label # None /\ args.label.s # <<>> THEN <<args.label.s>> ELSE <<>>)
  \o [n \in 1..Len(args.choices.val) |->
        <<Digits[n + 1]>> \o <<": ">> \o args.choices.val[n]]

\* the lines a menu would show for the invisible choices, at any index
InvisibleLines(args) ==
  IF args.invisible.none THEN {}
  ELSE { <<Digits[n + 1]>> \o <<": ">> \o args.invisible.val[i] :
         n \in 1..9, i \in 1..Len(args.invisible.val) }

C9_NumericChoice ==
  (rule = "ckitem" /\ got = "line" /\ v.kind # "none" /\ a \in IntTexts)
    => LET combined == cfg.choices.val \o
                       (IF cfg.invisible.none THEN <<>> ELSE cfg.invisible.val)
           n == IntOf(a)
       IN  IF 1 <= n /\ n <= Len(combined)
           THEN v = Returns(StrV(combined[n]))
           ELSE v = RaisesInvalid("NUMERIC")

\* C9 happens: "3" selected the first invisible choice of a two-item menu
C9_Witness ==
  /\ rule = "ckitem"
  /\ got = "line"
  /\ a = T_3
  /\ Len(cfg.choices.val) = 2
  /\ ~cfg.invisible.none
  /\ v = Returns(StrV(cfg.invisible.val[1]))
  /\ pc = "returned"

\* the items whose first Len(x) characters equal x ignoring letter case
MatchesIgnoringCase(items, x) ==
  SelectSeq(items, LAMBDA item :
    /\ Len(x) <= Len(item)
    /\ Lower(SubSeq(item, 1, Len(x))) = Lower(x))

\* C10: the keyword rule, and the menu-item rule for a text that is not an
\* integer, match the text against every configured item as a prefix
\* ignoring letter case; validate returns the item when exactly one item
\* matches and signals Invalid when none or several do.
C10_PrefixIgnoringCase ==
  (rule \in {"ckkeywd", "ckitem"} /\ got = "line" /\ v.kind # "none"
     /\ a \notin IntTexts)
    => LET items == IF rule = "ckkeywd" THEN cfg.keywords.val
                    ELSE cfg.choices.val \o
                         (IF cfg.invisible.none THEN <<>> ELSE cfg.invisible.val)
           m == MatchesIgnoringCase(items, a)
       IN  IF Len(m) = 1 THEN v = Returns(StrV(m[1]))
           ELSE v.kind = "Invalid"

\* the call that starts in this step lacks its required parameter
StartsWithoutRequired ==
  /\ pc = "idle"
  /\ pc' # "idle"
  /\ \/ rule = "ckitem" /\ cfg'.choices.none
     \/ rule = "ckkeywd" /\ cfg'.keywords.none

\* C11: a menu-item call without choices, or a keyword call without
\* keywords, raises a configuration error at call time: before any line is
\* read and before anything is printed; the error is neither Invalid nor
\* UserQuit, and the loop does not retry it (no read follows).
C11_MissingParameterRaisesAtCall ==
  [][ /\ StartsWithoutRequired
        => /\ pc' = "raised"
           /\ exc' = "ValueError"
           /\ reads' = 0
           /\ out' = <<>>
           /\ got' = "nothing"
      /\ (pc = "raised" /\ reads = 0)
        => (pc' = "idle" /\ reads' = 0 /\ out' = <<>>) ]_vars

\* C11 happens: a menu call with a label and a default but no choices has
\* ended in ValueError with nothing read and nothing printed
C11_Witness ==
  /\ rule = "ckitem"
  /\ cfg.choices.none
  /\ cfg.label = StrV(T_L)
  /\ cfg.default # None
  /\ pc = "raised"
  /\ exc = "ValueError"
  /\ reads = 0
  /\ out = <<>>

\* the line just read is an accepted one: validate returned a value for it,
\* or it is the empty line and the call has a default
AcceptedLine ==
  /\ got' = "line"
  /\ \/ v'.kind = "ok"
     \/ a' = <<>> /\ cfg.default # None

\* C12: every loop iteration reads exactly one line; end-of-input ends the
\* call, so a console of n lines is answered within n + 1 reads; a call ends
\* only by returning a value or by UserQuit; and a quit token or an accepted
\* line ends the call, so that only an endless console with neither keeps
\* the call prompting.
C12_TerminatesWithinReads ==
  [][ pc = "input"
        => /\ reads' = reads + 1
           /\ reads' <= MaxReads + 1
           /\ got' = "EOF" => pc' # "input"
           /\ pc' # "input"
                => \/ pc' = "returned"
                   \/ pc' = "raised" /\ exc' = "UserQuit"
           /\ (AcceptedLine \/ (got' = "line" /\ a' \in QuitTokens))
                => pc' # "input" ]_vars

====
